---- MODULE Spec2Model ----
(***************************************************************************)
(* vid2frame: the frame ingestion pipeline (vid2frame.py) and the four     *)
(* storage backends (storage.py).                                          *)
(*                                                                         *)
(* Spec          the pipeline's main loop with duplicate detection off:    *)
(*               one video after the other is decoded, its frames selected,*)
(*               sorted and committed with frame_db.put; then close and    *)
(*               display_info.                                             *)
(* SpecDedup     the same loop with duplicate detection on.                *)
(* SpecScenario  the same loop on one video of five frames, two of them    *)
(*               copies of the first.                                      *)
(* SpecStorage   the storage API driven directly: put with arbitrary frame *)
(*               lists (unreadable files, bytes that are no image), close, *)
(*               info.                                                     *)
(*                                                                         *)
(* Modelling conventions.  A video_key is the number of the video (stems   *)
(* are distinct strings; only their distinctness and an order for the      *)
(* key-sorted LMDB scan are used).  The bytes of a frame file are a record *)
(* [origin, image, hash]: origin names the decoded frame the bytes came    *)
(* from, image is what Image.open finds in them (a size, or ImageCorrupt), *)
(* hash the perceptual hash the hash algorithm computes of them.           *)
(* --no_duplicates is held in percent and --interval in half seconds, so   *)
(* that round() is computed on exact rationals.                            *)
(* Decimal file names and key suffixes are sequences of digits.            *)
(***************************************************************************)
EXTENDS Integers, Sequences, FiniteSets, TLC

\* ------------------------------------------------------------- bounds
\* videos of one pipeline run
MaxVideos == 2
\* frames decoded over one pipeline run in uniform-count mode
MaxFrames == 5
\* frames decoded over one pipeline run in skip-stride and interval mode
MaxStrideFrames == 4
\* frames decoded over one pipeline run with duplicate detection on
MaxDupFrames == 3
\* --skip values tried
MaxSkip == 2
\* --num_frame values tried
MaxNumFrame == 4
\* put calls, and frames over all of them, when the storage API is driven
\* directly
MaxPuts == 2
MaxPutFrames == 3

\* ---------------------------------------------------- program constants
\* width of "{ith_frame:08d}" and of ffmpeg's "%8d.jpg"
KeyWidth == 8

STORAGE_TYPES == {"HDF5", "LMDB", "FILE", "PKL"}

\* sizes Image.open can report, and the mark of bytes that are no image
ImageSizes == {"(2, 2)", "(4, 4)"}
ImageCorrupt == "corrupt"

\* ------------------------------------------------------ pure functions
Range(s) == {s[i] : i \in 1..Len(s)}

\* Python's round(): to the nearest integer, a tie to the even one.
\* The argument is the non-negative rational num/den.
PyRound(num, den) ==
    LET q == num \div den
        r == num % den
    IN  IF 2 * r < den THEN q
        ELSE IF 2 * r > den THEN q + 1
        ELSE IF q % 2 = 0 THEN q ELSE q + 1

\* the decimal digits of n, most significant first
RECURSIVE Digits(_)
Digits(n) == IF n < 10 THEN <<n>> ELSE Append(Digits(n \div 10), n % 10)

\* format(n, "08d"): the digits, zero-padded on the left to KeyWidth
Fmt08d(n) ==
    LET d == Digits(n)
    IN  IF Len(d) >= KeyWidth THEN d
        ELSE [i \in 1..(KeyWidth - Len(d)) |-> 0] \o d

\* int(stem): the number a digit sequence denotes
RECURSIVE ParseInt(_)
ParseInt(d) ==
    IF d = <<>> THEN 0
    ELSE 10 * ParseInt(SubSeq(d, 1, Len(d) - 1)) + d[Len(d)]

\* lexicographic order of two digit sequences (byte order of the strings)
RECURSIVE LexLess(_, _)
LexLess(a, b) ==
    IF b = <<>> THEN FALSE
    ELSE IF a = <<>> THEN TRUE
    ELSE IF Head(a) # Head(b) THEN Head(a) < Head(b)
    ELSE LexLess(Tail(a), Tail(b))

\* order of two storage keys "{video_key}/{suffix}"
KeyLess(k1, k2) ==
    \/ k1[1] < k2[1]
    \/ k1[1] = k2[1] /\ LexLess(k1[2], k2[2])

\* the keys of a set in ascending key order
RECURSIVE SortedKeys(_)
SortedKeys(ks) ==
    IF ks = {} THEN <<>>
    ELSE LET k == CHOOSE x \in ks : \A y \in ks \ {x} : KeyLess(x, y)
         IN  <<k>> \o SortedKeys(ks \ {k})

\* ------------------------------------------------------------ storage
\* A backend's persisted state.  entries: key -> bytes.  dirs: the per-video
\* subdirectories that exist (PKL, FILE).  A PKL entry <<video_key, i>> is
\* element i of the list pickled in video_key's frames.pkl; pickles are the
\* videos whose frames.pkl was written.
EmptyEntries == [k \in {} |-> 0]
EmptyDatabase == [entries |-> EmptyEntries, dirs |-> {}, pickles |-> {}]

StoreAt(entries, key, data) ==
    [k \in (DOMAIN entries) \cup {key} |-> IF k = key THEN data ELSE entries[k]]

\* key = f"{video_key}/{ith_frame:08d}"
FrameKey(video_key, ith_frame) == <<video_key, Fmt08d(ith_frame)>>

\* The loop shared by the puts: for ith_frame, (frame_id, frame_path) in
\* enumerate(frame_files): read the file, store it under its key.  Reading an
\* unreadable file raises and ends the loop with what was stored so far.
RECURSIVE WriteFrames(_, _, _, _, _)
WriteFrames(entries, video_key, clip_tmp_dir, frame_files, ith_frame) ==
    IF ith_frame >= Len(frame_files)
    THEN [entries |-> entries, raised |-> FALSE]
    ELSE LET frame_path == frame_files[ith_frame + 1][2]
             file == clip_tmp_dir[frame_path]
         IN  IF ~file.readable
             THEN [entries |-> entries, raised |-> TRUE]
             ELSE WriteFrames(StoreAt(entries, FrameKey(video_key, ith_frame), file.data),
                              video_key, clip_tmp_dir, frame_files, ith_frame + 1)

\* LMDBStorage.put without its transaction: what was written before the
\* failing read stays.
LMDBPutNoTxn(db, video_key, clip_tmp_dir, frame_files) ==
    LET w == WriteFrames(db.entries, video_key, clip_tmp_dir, frame_files, 0)
    IN  [db |-> [db EXCEPT !.entries = w.entries], raised |-> w.raised]

\* LMDBStorage.put: one write transaction per video; leaving the with block
\* by an exception aborts it, leaving it normally commits it.
LMDBPut(db, video_key, clip_tmp_dir, frame_files) ==
    LET txn == WriteFrames(db.entries, video_key, clip_tmp_dir, frame_files, 0)
    IN  IF txn.raised
        THEN [db |-> db, raised |-> TRUE]
        ELSE [db |-> [db EXCEPT !.entries = txn.entries], raised |-> FALSE]

\* HDF5Storage.put: every frame is written on its own.
HDF5Put(db, video_key, clip_tmp_dir, frame_files) ==
    LET w == WriteFrames(db.entries, video_key, clip_tmp_dir, frame_files, 0)
    IN  [db |-> [db EXCEPT !.entries = w.entries], raised |-> w.raised]

\* PKLStorage.put: mkdir, read every frame into frame_data, pickle the list.
RECURSIVE PKLFrameData(_, _, _, _, _)
PKLFrameData(entries, video_key, clip_tmp_dir, frame_files, ith_frame) ==
    IF ith_frame >= Len(frame_files)
    THEN [entries |-> entries, raised |-> FALSE]
    ELSE LET file == clip_tmp_dir[frame_files[ith_frame + 1][2]]
         IN  IF ~file.readable
             THEN [entries |-> entries, raised |-> TRUE]
             ELSE PKLFrameData(StoreAt(entries, <<video_key, <<ith_frame>>>>, file.data),
                               video_key, clip_tmp_dir, frame_files, ith_frame + 1)

PKLPut(db, video_key, clip_tmp_dir, frame_files) ==
    LET made == [db EXCEPT !.dirs = @ \cup {video_key}]
        r == PKLFrameData(db.entries, video_key, clip_tmp_dir, frame_files, 0)
    IN  IF r.raised
        THEN [db |-> made, raised |-> TRUE]
        ELSE [db |-> [made EXCEPT !.entries = r.entries,
                                  !.pickles = @ \cup {video_key}],
              raised |-> FALSE]

\* FileStorage.put: mkdir, copy every frame to {ith_frame:08d}.jpg.
FilePut(db, video_key, clip_tmp_dir, frame_files) ==
    LET made == [db EXCEPT !.dirs = @ \cup {video_key}]
        w == WriteFrames(db.entries, video_key, clip_tmp_dir, frame_files, 0)
    IN  [db |-> [made EXCEPT !.entries = w.entries], raised |-> w.raised]

\* STORAGE_TYPES[db_type](path).put(video_key, clip_tmp_dir, frame_files)
Put(db_type, db, video_key, clip_tmp_dir, frame_files) ==
    CASE db_type = "LMDB" -> LMDBPut(db, video_key, clip_tmp_dir, frame_files)
      [] db_type = "HDF5" -> HDF5Put(db, video_key, clip_tmp_dir, frame_files)
      [] db_type = "PKL"  -> PKLPut(db, video_key, clip_tmp_dir, frame_files)
      [] db_type = "FILE" -> FilePut(db, video_key, clip_tmp_dir, frame_files)

\* info[ik] = info.get(ik, 0) + 1
Tally(info, ik) ==
    [s \in (DOMAIN info) \cup {ik} |->
        IF s = ik THEN (IF ik \in DOMAIN info THEN info[ik] + 1 ELSE 1)
        ELSE info[s]]

\* The scan loop shared by the four info methods: Image.open on every stored
\* value in turn; a value that is no image is printed and skipped.  img is
\* bound by the first successful Image.open.
EmptyTally == [info |-> [s \in {} |-> 0], img_bound |-> FALSE, failed |-> 0]

RECURSIVE ScanFrames(_, _, _)
ScanFrames(entries, keys, acc) ==
    IF keys = <<>> THEN acc
    ELSE LET v == entries[Head(keys)]
         IN  ScanFrames(entries, Tail(keys),
                 IF v.image # ImageCorrupt
                 THEN [acc EXCEPT !.info = Tally(@, v.image), !.img_bound = TRUE]
                 ELSE [acc EXCEPT !.failed = @ + 1])

\* "return info, img" with img never assigned raises UnboundLocalError.
ReturnInfoImg(acc, printed) ==
    IF acc.img_bound
    THEN [status |-> "ok", meta |-> acc.info, failed |-> acc.failed, printed |-> printed]
    ELSE [status |-> "UnboundLocalError", meta |-> acc.info, failed |-> acc.failed,
          printed |-> printed]

\* LMDBStorage.info, HDF5Storage.info, PKLStorage.info, FileStorage.info.
\* The tally does not depend on the order of the scan; the keys are visited
\* in key order, which is the LMDB cursor's.
Info(db_type, db) ==
    LET acc == ScanFrames(db.entries, SortedKeys(DOMAIN db.entries), EmptyTally)
    IN  CASE db_type = "HDF5" ->
               ReturnInfoImg(acc, IF DOMAIN db.entries = {}
                                  THEN {"No video frames found"} ELSE {})
          [] db_type = "PKL" ->
               IF db.dirs \ db.pickles # {}
               THEN [status |-> "FileNotFoundError", meta |-> EmptyTally.info,
                     failed |-> 0, printed |-> {}]
               ELSE ReturnInfoImg(acc, {})
          [] OTHER -> ReturnInfoImg(acc, {})

\* the sum of the counts of a dimension -> count mapping
RECURSIVE SumCounts(_, _)
SumCounts(meta, dims) ==
    IF dims = {} THEN 0
    ELSE LET d == CHOOSE x \in dims : TRUE
         IN  meta[d] + SumCounts(meta, dims \ {d})

TotalCount(meta) == SumCounts(meta, DOMAIN meta)


\* ------------------------------------------------------------ pipeline
VARIABLES
    args,          \* the parsed command line (parse_args)
    vid_index,     \* videos the for loop has taken from all_videos (the list
                   \* ends where Finish is taken: at most MaxVideos videos)
    pc,            \* where the program is: "loop", "frames", "done", "crashed";
                   \* for the storage API alone: "open", "closed", "put_failed"
    error,         \* the exception that ended the program, or "none"
    vf_options,    \* the decoder's filter options, as built so far
    ffmpeg_calls,  \* per ffmpeg call: the video and the options it was given
    v_dir,         \* the current video's frame directory: name -> file
    todo,          \* the names v_dir.iterdir() has still to yield
    sample_ids,    \* the ids np.linspace selected
    hashes,        \* fingerprints accepted so far (detect_duplicate)
    total_files,
    duplicates,
    frame_files,   \* the (fid, name) pairs kept for put
    considered,    \* the fids of the current video counted in total_files,
                   \* in the order met
    database,      \* what frame_db has persisted
    done_videos,
    committed,     \* video_key -> what its put was called for: frames, the
                   \* set of the (fid, name) pairs retained, ascending,
                   \* whether they were retained in ascending order, and
                   \* files, the directory they were read from
    decoded,       \* frames decoded so far in this run (handed to put so
                   \* far, for the storage API alone)
    info_result    \* what info returned or raised, or NoResult

vars == <<args, vid_index, pc, error, vf_options, ffmpeg_calls, v_dir,
          todo, sample_ids, hashes, total_files, duplicates, frame_files,
          considered, database, done_videos, committed, decoded, info_result>>

NoResult == [status |-> "none"]

\* r_frame_rate values ffprobe reports (0: no usable stream)
FrameRates == {0, 25, 30}

\* --interval values, in half seconds (0: not set)
Intervals == {0, 1, 2}

\* (--no_duplicates in percent, --hash_size) pairs tried
DuplicateOptions == {<<99, 8>>, <<99, 2>>}

\* perceptual hashes: the set of the positions of the bits that are set
Fingerprints == {{}, {1}, {1, 2}}

\* one element of the vf_options list: an option word, or a filter string
\* (the filters joined by ",")
Word(w) == [text |-> w, chain |-> <<>>]
FilterString(chain) == [text |-> "", chain |-> chain]
Filter(name, arg) == [name |-> name, arg |-> arg]

\* lines 133-149: scaling options, then "-vsync vfr" in interval mode
InitialVfOptions(a) ==
    (IF a.short = 0 THEN <<>>
     ELSE <<Word("-vf"), FilterString(<<Filter("scale", a.short)>>)>>)
    \o (IF a.interval > 0 THEN <<Word("-vsync"), Word("vfr")>> ELSE <<>>)

\* select_str = "select=not(mod(n\,%d))" % int(round(args.interval*r_frame_rate))
SelectStr(a, r_frame_rate) ==
    Filter("select", PyRound(a.interval * r_frame_rate, 2))

\* lines 181-185: if '-vf' in vf_options the select expression is appended
\* to the filter string after it, else vf_options becomes ["-vf", select_str]
WithSelect(options, select_str) ==
    IF \E i \in 1..Len(options) : options[i] = Word("-vf")
    THEN LET vf_index == CHOOSE i \in 1..Len(options) :
                            /\ options[i] = Word("-vf")
                            /\ \A j \in 1..(i - 1) : options[j] # Word("-vf")
         IN  [options EXCEPT ![vf_index + 1] =
                 FilterString(Append(@.chain, select_str))]
    ELSE <<Word("-vf"), FilterString(<<select_str>>)>>

\* np.linspace(start, stop, num, endpoint=False, dtype=np.int32)
LinspaceOpen(start, stop, num) ==
    [i \in 1..num |-> start + ((i - 1) * (stop - start)) \div num]

\* np.linspace(start, stop, num, endpoint=True, dtype=np.int32): the num
\* evenly spaced values start + i*step, step = (stop-start)/(num-1), the
\* last one set to stop, each floored to an integer (exact arithmetic)
Linspace(start, stop, num) ==
    [i \in 1..num |->
        IF num = 1 THEN start
        ELSE IF i = num THEN stop
        ELSE start + ((i - 1) * (stop - start)) \div (num - 1)]

Min(S) == CHOOSE x \in S : \A y \in S : x <= y
Max(S) == CHOOSE x \in S : \A y \in S : x >= y

\* hash1 - hash2 of imagehash: the number of bits that differ
HashDistance(hash1, hash2) ==
    Cardinality((hash1 \ hash2) \cup (hash2 \ hash1))

\* lines 152-154: diff_limit = round((1 - no_duplicates) * hash_size**2)
DiffLimit(a) == PyRound((100 - a.no_duplicates) * a.hash_size * a.hash_size, 100)

\* detect_duplicate comparing with the most recent accepted hash only
DetectDuplicateLast(hash1, accepted, diff_limit) ==
    /\ accepted # <<>>
    /\ HashDistance(hash1, accepted[Len(accepted)]) <= diff_limit

\* detect_duplicate, lines 206-212: True when some accepted hash is within
\* diff_limit of hash1
DetectDuplicate(hash1, accepted, diff_limit) ==
    \E i \in 1..Len(accepted) : HashDistance(hash1, accepted[i]) <= diff_limit

\* the order of the (fid, name) tuples
PairLess(a, b) ==
    \/ a[1] < b[1]
    \/ a[1] = b[1] /\ LexLess(a[2], b[2])

\* frame_files left in the order the directory was enumerated
Unsorted(pairs) == pairs

\* frame_files.sort()
RECURSIVE SortPairs(_)
SortPairs(pairs) ==
    IF pairs = <<>> THEN <<>>
    ELSE LET m == CHOOSE i \in 1..Len(pairs) :
                     \A j \in 1..Len(pairs) :
                        (j = i) \/ PairLess(pairs[i], pairs[j])
                                \/ (pairs[j] = pairs[i] /\ i < j)
         IN  <<pairs[m]>> \o SortPairs(SubSeq(pairs, 1, m - 1)
                                        \o SubSeq(pairs, m + 1, Len(pairs)))

\* the stride test with the frame id taken from 0
SkipsFromZero(fid, skip) == skip > 1 /\ fid % skip # 0

\* lines 222-224: elif args.skip > 1: if (fid-1) % args.skip != 0: continue
Skips(fid, skip) == skip > 1 /\ (fid - 1) % skip # 0

\* the frame directory ffmpeg leaves: files 00000001.jpg .. m, each a valid
\* image of one size, with the perceptual hash the hash algorithm gives it
DecodedDir(video_key, m, size, fps) ==
    [name \in {Fmt08d(f) : f \in 1..m} |->
        [readable |-> TRUE,
         data |-> [origin |-> <<video_key, ParseInt(name)>>, image |-> size,
                   hash |-> fps[ParseInt(name)]]]]

\* the size of a decoded frame: the videos are 4x4, scaled by --short
FrameSize(a) == IF a.short > 0 THEN "(2, 2)" ELSE "(4, 4)"

EmptyDir == [name \in {} |-> 0]

\* the command lines tried: one sampling mode each (--skip, --num_frame or
\* --interval), with the other sampling options at their defaults
SamplingModes ==
    {[skip |-> k, num_frame |-> -1, interval |-> 0] : k \in 1..MaxSkip}
    \cup {[skip |-> 1, num_frame |-> n, interval |-> 0] : n \in 1..MaxNumFrame}
    \cup {[skip |-> 1, num_frame |-> -1, interval |-> r] : r \in Intervals \ {0}}

\* duplicate detection off: every backend, and scaling in interval mode
\* (where it decides how the select expression joins the options)
PlainArgs ==
    {a \in {[db_type |-> t, skip |-> m.skip, num_frame |-> m.num_frame,
             interval |-> m.interval, no_duplicates |-> 0, hash_size |-> 8,
             short |-> s] :
                t \in STORAGE_TYPES, m \in SamplingModes, s \in {0, 2}} :
        a.short = 0 \/ a.interval > 0}

\* duplicate detection on (LMDB backend, no scaling)
DuplicateArgs ==
    {[db_type |-> "LMDB", skip |-> m.skip, num_frame |-> m.num_frame,
      interval |-> m.interval, no_duplicates |-> d[1], hash_size |-> d[2],
      short |-> 0] :
        m \in SamplingModes, d \in DuplicateOptions}

\* parse_args' and line 148's checks, and the state before the first video
InitWith(argset) ==
    /\ args \in {a \in argset : a.interval > 0 => (a.num_frame <= 0 /\ a.skip = 1)}
    /\ vid_index = 0
    /\ pc = "loop"
    /\ error = "none"
    /\ vf_options = InitialVfOptions(args)
    /\ ffmpeg_calls = <<>>
    /\ v_dir = EmptyDir
    /\ todo = {}
    /\ sample_ids = {}
    /\ hashes = <<>>
    /\ total_files = 0
    /\ duplicates = 0
    /\ frame_files = <<>>
    /\ considered = <<>>
    /\ database = EmptyDatabase
    /\ done_videos = {}
    /\ committed = [v \in {} |-> <<>>]
    /\ decoded = 0
    /\ info_result = NoResult

Ascending(pairs) ==
    \A i, j \in 1..Len(pairs) : i < j => pairs[i][1] < pairs[j][1]

Logged(log, video_key, frames, files) ==
    [v \in (DOMAIN log) \cup {video_key} |->
        IF v = video_key
        THEN [frames |-> Range(frames), ascending |-> Ascending(frames),
              files |-> files]
        ELSE log[v]]

Init == InitWith(PlainArgs)

InitDedup == InitWith(DuplicateArgs)

FrameBudget ==
    IF args.no_duplicates > 0 THEN MaxDupFrames
    ELSE IF args.num_frame > 0 THEN MaxFrames
    ELSE MaxStrideFrames

\* lines 161-178: interval mode and get_frame_rate returns 0: the video is
\* skipped (continue)
SkipVideo ==
    /\ pc = "loop"
    /\ vid_index < MaxVideos
    /\ args.interval > 0
    /\ vid_index' = vid_index + 1
    /\ UNCHANGED <<args, pc, error, vf_options, ffmpeg_calls, v_dir, todo,
                   sample_ids, hashes, total_files, duplicates, frame_files,
                   considered, database, done_videos, committed, decoded,
                   info_result>>

\* lines 161-216: the options, the ffmpeg call, ids, sample_ids, and the
\* per-video state of the frame loop
BeginVideo ==
    /\ pc = "loop"
    /\ vid_index < MaxVideos
    /\ \E r_frame_rate \in (IF args.interval > 0 THEN FrameRates \ {0} ELSE {0}),
          m \in 0..(FrameBudget - decoded) :
       \E fps \in [1..m -> IF args.no_duplicates > 0 THEN Fingerprints ELSE {{}}] :
          LET video_key == vid_index + 1
              options == IF args.interval > 0
                         THEN WithSelect(vf_options, SelectStr(args, r_frame_rate))
                         ELSE vf_options
              dir == DecodedDir(video_key, m, FrameSize(args), fps)
              ids == {ParseInt(name) : name \in DOMAIN dir}
              sample == args.num_frame > 0
          IN  /\ vf_options' = options
              /\ ffmpeg_calls' = Append(ffmpeg_calls,
                                        [video |-> video_key, rate |-> r_frame_rate,
                                         options |-> options])
              /\ v_dir' = dir
              /\ decoded' = decoded + m
              /\ IF sample /\ ids = {}
                 THEN \* min(ids) of an empty list
                      /\ pc' = "crashed"
                      /\ error' = "ValueError"
                      /\ UNCHANGED <<todo, sample_ids, hashes, total_files,
                                     duplicates, frame_files, considered>>
                 ELSE /\ pc' = "frames"
                      /\ error' = error
                      /\ sample_ids' = IF sample
                                       THEN Range(Linspace(Min(ids), Max(ids),
                                                           args.num_frame))
                                       ELSE sample_ids
                      /\ hashes' = <<>>
                      /\ total_files' = 0
                      /\ duplicates' = 0
                      /\ frame_files' = <<>>
                      /\ considered' = <<>>
                      /\ todo' = DOMAIN dir
    /\ UNCHANGED <<args, vid_index, database, done_videos, committed,
                   info_result>>

\* lines 217-231: one round of the frame loop, for the file iterdir yields
FrameStep ==
    /\ pc = "frames"
    /\ \E name \in todo :
          LET fid == ParseInt(name)
              sample == args.num_frame > 0
              dropped == IF sample THEN fid \notin sample_ids
                         ELSE Skips(fid, args.skip)
              hash1 == v_dir[name].data.hash
              dup == /\ args.no_duplicates > 0
                     /\ DetectDuplicate(hash1, hashes, DiffLimit(args))
          IN  /\ todo' = todo \ {name}
              /\ total_files' = IF dropped THEN total_files ELSE total_files + 1
              /\ considered' = IF dropped THEN considered ELSE Append(considered, fid)
              /\ duplicates' = IF ~dropped /\ dup THEN duplicates + 1 ELSE duplicates
              /\ hashes' = IF ~dropped /\ args.no_duplicates > 0 /\ ~dup
                           THEN Append(hashes, hash1) ELSE hashes
              /\ frame_files' = IF ~dropped /\ ~dup
                                THEN Append(frame_files, <<fid, name>>)
                                ELSE frame_files
    /\ UNCHANGED <<args, vid_index, pc, error, vf_options, ffmpeg_calls,
                   v_dir, sample_ids, database, done_videos, committed, decoded,
                   info_result>>

\* lines 233-241: sort, put, done_videos.add, the duplicates report
CommitVideo ==
    /\ pc = "frames"
    /\ todo = {}
    /\ LET video_key == vid_index + 1
           sorted == SortPairs(frame_files)
           r == Put(args.db_type, database, video_key, v_dir, sorted)
       IN  /\ frame_files' = sorted
           /\ database' = r.db
           /\ committed' = Logged(committed, video_key, frame_files, v_dir)
           /\ v_dir' = EmptyDir    \* call(["rm", "-rf", v_dir])
           /\ considered' = <<>>
           /\ done_videos' = done_videos \cup {video_key}
           /\ vid_index' = vid_index + 1
           /\ IF args.no_duplicates > 0 /\ total_files = 0
              THEN \* percent = float(duplicates) / float(total_files) * 100.
                   pc' = "crashed" /\ error' = "ZeroDivisionError"
              ELSE pc' = "loop" /\ error' = error
    /\ UNCHANGED <<args, vf_options, ffmpeg_calls, todo, sample_ids,
                   hashes, total_files, duplicates, decoded, info_result>>

\* lines 243-244: frame_db.close(), frame_db.display_info()
Finish ==
    /\ pc = "loop"
    /\ LET res == Info(args.db_type, database)
       IN  /\ info_result' = res
           /\ IF res.status = "ok"
              THEN pc' = "done" /\ error' = error
              ELSE pc' = "crashed" /\ error' = res.status
    /\ UNCHANGED <<args, vid_index, vf_options, ffmpeg_calls, v_dir, todo,
                   sample_ids, hashes, total_files, duplicates, frame_files,
                   considered, database, done_videos, committed, decoded>>

Next == SkipVideo \/ BeginVideo \/ FrameStep \/ CommitVideo \/ Finish

Spec == Init /\ [][Next]_vars

SpecDedup == InitDedup /\ [][Next]_vars

\* --------------------------------------------- the storage API alone
\* what a file handed to put can be: unreadable, or readable bytes that are
\* an image of some size or no image at all
FileKinds == {"unreadable", ImageCorrupt} \cup ImageSizes

GivenFile(video_key, fid, kind) ==
    [readable |-> kind # "unreadable",
     data |-> [origin |-> <<video_key, fid>>,
               image |-> IF kind = "unreadable" THEN ImageCorrupt ELSE kind,
               hash |-> {}]]

StorageArgs ==
    {[db_type |-> t, skip |-> 1, num_frame |-> -1, interval |-> 0,
      no_duplicates |-> 0, hash_size |-> 8, short |-> 0] : t \in STORAGE_TYPES}

\* STORAGE_TYPES[db_type](path): a fresh, open backend
InitStorage ==
    /\ args \in StorageArgs
    /\ vid_index = 0
    /\ pc = "open"
    /\ error = "none"
    /\ vf_options = <<>>
    /\ ffmpeg_calls = <<>>
    /\ v_dir = EmptyDir
    /\ todo = {}
    /\ sample_ids = {}
    /\ hashes = <<>>
    /\ total_files = 0
    /\ duplicates = 0
    /\ frame_files = <<>>
    /\ considered = <<>>
    /\ database = EmptyDatabase
    /\ done_videos = {}
    /\ committed = [v \in {} |-> <<>>]
    /\ decoded = 0
    /\ info_result = NoResult

\* put(video_key, clip_tmp_dir, frame_files) with a new video_key and any
\* frame list; a failed read raises out of put and ends the caller
StoragePut ==
    /\ pc = "open"
    /\ vid_index < MaxPuts
    /\ \E n \in 0..(MaxPutFrames - decoded) :
       \E kinds \in [1..n -> FileKinds] :
          LET video_key == vid_index + 1
              clip_tmp_dir == [name \in {Fmt08d(f) : f \in 1..n} |->
                                  GivenFile(video_key, ParseInt(name),
                                            kinds[ParseInt(name)])]
              files == [i \in 1..n |-> <<i, Fmt08d(i)>>]
              r == Put(args.db_type, database, video_key, clip_tmp_dir, files)
          IN  /\ database' = r.db
              /\ committed' = Logged(committed, video_key, files, clip_tmp_dir)
              /\ decoded' = decoded + n
              /\ vid_index' = vid_index + 1
              /\ IF r.raised
                 THEN /\ pc' = "put_failed"
                      /\ error' = "IOError"
                      /\ done_videos' = done_videos
                 ELSE /\ pc' = pc
                      /\ error' = error
                      /\ done_videos' = done_videos \cup {video_key}
    /\ UNCHANGED <<args, vf_options, ffmpeg_calls, v_dir, todo, sample_ids, hashes,
                   total_files, duplicates, frame_files, considered, info_result>>

\* close()
StorageClose ==
    /\ pc = "open"
    /\ pc' = "closed"
    /\ UNCHANGED <<args, vid_index, error, vf_options, ffmpeg_calls, v_dir, todo,
                   sample_ids, hashes, total_files, duplicates, frame_files,
                   considered, database, done_videos, committed, decoded,
                   info_result>>

\* info(path) on what the run left behind (test_db.py)
StorageInfo ==
    /\ pc \in {"closed", "put_failed"}
    /\ info_result = NoResult
    /\ info_result' = Info(args.db_type, database)
    /\ UNCHANGED <<args, vid_index, pc, error, vf_options, ffmpeg_calls, v_dir, todo,
                   sample_ids, hashes, total_files, duplicates, frame_files,
                   considered, database, done_videos, committed, decoded>>

NextStorage == StoragePut \/ StorageClose \/ StorageInfo

SpecStorage == InitStorage /\ [][NextStorage]_vars

\* ------------------------------------- the five-frame duplicate scenario
\* One video decoded to frames 1..5, frames 2 and 4 pixel-identical to frame
\* 1 and frames 1, 3, 5 more than the limit apart; --no_duplicates 0.99,
\* --hash_size 8, skip 1; the frame loop is about to start.
ScenarioArgs ==
    [db_type |-> "FILE", skip |-> 1, num_frame |-> -1, interval |-> 0,
     no_duplicates |-> 99, hash_size |-> 8, short |-> 0]

ScenarioHashes == <<{}, {}, {1, 2}, {}, {1, 3}>>

InitScenario ==
    /\ args = ScenarioArgs
    /\ vid_index = 0
    /\ pc = "frames"
    /\ error = "none"
    /\ vf_options = InitialVfOptions(args)
    /\ ffmpeg_calls = <<[video |-> 1, rate |-> 0, options |-> vf_options]>>
    /\ v_dir = DecodedDir(1, Len(ScenarioHashes), FrameSize(args), ScenarioHashes)
    /\ todo = DOMAIN v_dir
    /\ sample_ids = {}
    /\ hashes = <<>>
    /\ total_files = 0
    /\ duplicates = 0
    /\ frame_files = <<>>
    /\ considered = <<>>
    /\ database = EmptyDatabase
    /\ done_videos = {}
    /\ committed = [v \in {} |-> <<>>]
    /\ decoded = Len(ScenarioHashes)
    /\ info_result = NoResult

NextScenario == FrameStep \/ CommitVideo \/ Finish

SpecScenario == InitScenario /\ [][NextScenario]_vars

\* ------------------------------------------------------------- claims
\* the frame ids of a set of (fid, name) pairs
Fids(pairs) == {p[1] : p \in pairs}

\* the number of ids of R below f: the rank of f in R, from 0
Rank(R, f) == Cardinality({g \in R : g < f})

\* the key the backend stores the i-th frame of a video under
StoredKey(db_type, video_key, i) ==
    IF db_type = "PKL" THEN <<video_key, <<i>>>> ELSE FrameKey(video_key, i)

KeysOf(video_key) == {k \in DOMAIN database.entries : k[1] = video_key}

\* C2: after the pipeline commits a video, key {video_key}/{i:08d} holds the
\* retained frame with the i-th smallest frame_id: the indices are exactly
\* 0..N-1, no two retained frames share a key, and key order is ascending
\* frame_id order, whatever order the directory was enumerated in.
C2_KeysFollowFrameIds ==
    \A v \in done_videos :
        LET R == Fids(committed[v].frames)
        IN  /\ KeysOf(v) = {StoredKey(args.db_type, v, i) : i \in 0..(Cardinality(R) - 1)}
            /\ Cardinality(KeysOf(v)) = Cardinality(R)
            /\ \A f \in R :
                  database.entries[StoredKey(args.db_type, v, Rank(R, f))].origin = <<v, f>>
            /\ \A k1, k2 \in KeysOf(v) :
                  KeyLess(k1, k2) <=>
                      database.entries[k1].origin[2] < database.entries[k2].origin[2]

\* a video of three or more frames was committed, retained in another than
\* ascending order
C2_Witness ==
    \E v \in done_videos :
        /\ ~committed[v].ascending
        /\ Cardinality(committed[v].frames) >= 3
        /\ Cardinality(KeysOf(v)) >= 3

\* the ids the current video was decoded to
DecodedIds == {ParseInt(name) : name \in DOMAIN v_dir}

\* the frame loop of the current video has run to its end
LoopEnded == pc = "frames" /\ todo = {}

\* x rounded to the nearest integer, x = num/den, a tie rounded up
RoundHalfUp(num, den) == (2 * num + den) \div (2 * den)

Floor(num, den) == num \div den

\* num/den made an integer: to the nearest, a tie to the even one or up, or down
Rounded(how, num, den) ==
    CASE how = "nearest-even" -> PyRound(num, den)
      [] how = "nearest-up" -> RoundHalfUp(num, den)
      [] how = "down" -> Floor(num, den)

\* the n values linearly spaced from lo to hi, each made an integer
SpacedIds(lo, hi, n, how) ==
    IF n = 1 THEN {lo}
    ELSE {Rounded(how, lo * (n - 1) + i * (hi - lo), n - 1) : i \in 0..(n - 1)}

\* C5 as stated: in uniform-count mode the retained ids are the n values
\* linearly spaced from min to max, each rounded to the nearest integer id
\* (a tie rounded either way).
C5_RetainedRoundedToNearest ==
    (LoopEnded /\ args.num_frame > 0) =>
        LET lo == Min(DecodedIds)
            hi == Max(DecodedIds)
        IN  \/ Fids(Range(frame_files)) = SpacedIds(lo, hi, args.num_frame, "nearest-even")
            \/ Fids(Range(frame_files)) = SpacedIds(lo, hi, args.num_frame, "nearest-up")

\* C5 amended: in uniform-count mode the retained ids are the n values
\* linearly spaced from min to max, each rounded down to an integer id: {min}
\* for n = 1, { floor(min + i*(max-min)/(n-1)) : i in 0..n-1 } for n >= 2; at
\* most n ids are retained, and min and max are among them when n >= 2.
C5_RetainedRoundedDown ==
    (LoopEnded /\ args.num_frame > 0) =>
        LET lo == Min(DecodedIds)
            hi == Max(DecodedIds)
            kept == Fids(Range(frame_files))
        IN  /\ kept = SpacedIds(lo, hi, args.num_frame, "down")
            /\ Cardinality(kept) <= args.num_frame
            /\ args.num_frame >= 2 => {lo, hi} \subseteq kept
            /\ args.num_frame = 1 => kept = {lo}

\* five frames, four asked for: 1, 2.33, 3.67, 5 are kept as 1, 2, 3, 5
C5_Witness ==
    /\ LoopEnded
    /\ args.num_frame = 4
    /\ DecodedIds = 1..5
    /\ Fids(Range(frame_files)) = {1, 2, 3, 5}

\* C6: in skip-stride mode (num_frame <= 0) a decoded frame id f is forwarded
\* to the duplicate filter / storage iff (f - 1) mod skip = 0; with skip = 1
\* every decoded id is retained and stored in ascending order.
C6_SkipStride ==
    /\ (pc = "frames" /\ args.num_frame <= 0) =>
          LET met == {ParseInt(name) : name \in (DOMAIN v_dir) \ todo}
          IN  /\ Range(considered) = {f \in met : (f - 1) % args.skip = 0}
              /\ Len(considered) = Cardinality(Range(considered))
              /\ (args.skip = 1 /\ args.no_duplicates = 0) =>
                     Fids(Range(frame_files)) = met
    /\ (args.num_frame <= 0 /\ args.skip = 1 /\ args.no_duplicates = 0) =>
          \A v \in done_videos :
             \A name \in DOMAIN committed[v].files :
                LET f == ParseInt(name)
                    k == StoredKey(args.db_type, v, f - 1)
                IN  /\ k \in DOMAIN database.entries
                    /\ database.entries[k].origin = <<v, f>>

\* stride 2 over four frames: 1 and 3 were forwarded, 2 and 4 were not
C6_Witness ==
    /\ LoopEnded
    /\ args.num_frame <= 0
    /\ args.skip = 2
    /\ DecodedIds = 1..4
    /\ Range(considered) = {1, 3}

\* the select expressions among the options of one ffmpeg call
SelectsOf(options) ==
    UNION {{<<i, j>> : j \in {x \in 1..Len(options[i].chain) :
                                options[i].chain[x].name = "select"}} :
           i \in 1..Len(options)}

\* C10: in interval mode the decoder options of the k-th video hold exactly
\* one frame-select expression, computed from that video's frame rate and the
\* interval; the options of earlier videos do not accumulate.
C10_OneSelectPerVideo ==
    args.interval > 0 =>
        \A k \in 1..Len(ffmpeg_calls) :
            LET call == ffmpeg_calls[k]
            IN  /\ Cardinality(SelectsOf(call.options)) = 1
                /\ \A p \in SelectsOf(call.options) :
                      call.options[p[1]].chain[p[2]] = SelectStr(args, call.rate)

\* the hash of a frame of the current video
HashOf(fid) == v_dir[Fmt08d(fid)].data.hash

\* C9: with t > 0 a candidate is discarded iff its fingerprint is within
\* round((1 - t) * s^2) of a previously accepted fingerprint of the same
\* video; a discarded candidate's fingerprint is not added and the list starts
\* empty for each video, so every two retained frames of a video are more
\* than the limit apart, and total_files = retained frames + duplicates.
C9_DuplicateFilter ==
    (pc = "frames" /\ args.no_duplicates > 0) =>
        LET limit == PyRound((100 - args.no_duplicates) * args.hash_size * args.hash_size, 100)
            kept == Fids(Range(frame_files))
        IN  /\ limit = DiffLimit(args)
            /\ limit = (IF args.hash_size = 8 THEN 1 ELSE 0)
            /\ hashes = [i \in 1..Len(frame_files) |-> HashOf(frame_files[i][1])]
            /\ \A a, b \in kept :
                  a # b => HashDistance(HashOf(a), HashOf(b)) > limit
            /\ total_files = Len(frame_files) + duplicates
            /\ total_files = Len(considered)
            /\ kept \subseteq Range(considered)
            /\ \A j \in 1..Len(considered) :
                  LET f == considered[j]
                      before == {considered[i] : i \in 1..(j - 1)} \cap kept
                  IN  (f \notin kept) <=>
                          \E g \in before : HashDistance(HashOf(f), HashOf(g)) <= limit

\* two frames far apart were accepted, then one within the limit of the
\* first of them and not of the latest was discarded
C9_Witness ==
    /\ LoopEnded
    /\ args.no_duplicates > 0
    /\ Len(frame_files) = 2
    /\ duplicates = 1
    /\ Len(considered) = 3
    /\ considered[3] \notin Fids(Range(frame_files))
    /\ HashDistance(HashOf(considered[3]), hashes[2]) > DiffLimit(args)
    /\ HashDistance(HashOf(considered[3]), hashes[1]) <= DiffLimit(args)

\* the frames a forward pass in ascending frame_id order retains
RECURSIVE AscendingPass(_, _, _)
AscendingPass(ids, accepted, limit) ==
    IF ids = {} THEN accepted
    ELSE LET f == Min(ids)
         IN  AscendingPass(ids \ {f},
                 IF \E g \in accepted : HashDistance(HashOf(f), HashOf(g)) <= limit
                 THEN accepted ELSE accepted \cup {f},
                 limit)

\* C3: the duplicate filter examines the selected frames in ascending
\* frame_id order, so among duplicates the smallest frame_id is retained,
\* for every directory order; with frames 1..5, frames 2 and 4 identical to
\* frame 1, t = 0.99 and hash size 8: retained {1, 3, 5}, duplicates = 2,
\* total_files = 5.
C3_SmallestIdRetained ==
    (LoopEnded /\ args.no_duplicates > 0) =>
        /\ Fids(Range(frame_files)) = AscendingPass(Range(considered), {}, DiffLimit(args))
        /\ Fids(Range(frame_files)) = {1, 3, 5}
        /\ duplicates = 2
        /\ total_files = 5

\* every put so far was given readable files that are valid images
AllValidImages ==
    \A v \in DOMAIN committed :
       \A name \in DOMAIN committed[v].files :
          /\ committed[v].files[name].readable
          /\ committed[v].files[name].data.image # ImageCorrupt

\* N: the frames passed to put over all videos
FramesPut ==
    Cardinality(UNION {{<<v, p>> : p \in committed[v].frames} : v \in DOMAIN committed})

\* C1: for every backend and every sequence of puts with distinct video_keys
\* followed by close, info returns a mapping whose counts sum to N, the frames
\* passed to put, when every frame file is a valid image (N = 0 included).
C1_InfoCountsEveryFrame ==
    (pc = "closed" /\ info_result # NoResult /\ AllValidImages) =>
        /\ info_result.status = "ok"
        /\ TotalCount(info_result.meta) = FramesPut

\* C1 for N > 0
C1_InfoCountsEveryFrameNonEmpty ==
    (pc = "closed" /\ info_result # NoResult /\ AllValidImages /\ FramesPut > 0) =>
        /\ info_result.status = "ok"
        /\ TotalCount(info_result.meta) = FramesPut

\* the video whose put failed
FailedVideo == vid_index

\* C4: LMDB put is all-or-nothing per video: if reading any file of the frame
\* list fails, put raises (the frame is not skipped, later frames are not
\* committed under shifted indices), afterwards the database holds no key of
\* that video_key, and every key committed by earlier puts is still there with
\* unchanged bytes.
C4_LMDBPutAllOrNothing ==
    args.db_type = "LMDB" =>
        /\ \A v \in DOMAIN committed :
              LET files == committed[v].files
                  unreadable == \E name \in DOMAIN files : ~files[name].readable
                  n == Cardinality(committed[v].frames)
              IN  IF unreadable
                  THEN /\ pc = "put_failed"
                       /\ error = "IOError"
                       /\ v = FailedVideo
                       /\ v \notin done_videos
                       /\ KeysOf(v) = {}
                  ELSE /\ v \in done_videos
                       /\ KeysOf(v) = {FrameKey(v, i) : i \in 0..(n - 1)}
                       /\ \A p \in committed[v].frames :
                             database.entries[FrameKey(v, p[1] - 1)] = files[p[2]].data
        /\ pc = "put_failed" =>
              \E name \in DOMAIN committed[FailedVideo].files :
                  ~committed[FailedVideo].files[name].readable

\* an LMDB put failed on its second file, after an earlier video was stored
C4_Witness ==
    /\ args.db_type = "LMDB"
    /\ pc = "put_failed"
    /\ FailedVideo = 2
    /\ KeysOf(1) # {}
    /\ committed[2].files[Fmt08d(1)].readable
    /\ ~committed[2].files[Fmt08d(2)].readable

\* C7: info on a backend that holds no frames does not fail: it reports the
\* empty condition and returns an empty dimension -> count report.
C7_InfoOnEmptyStore ==
    (pc = "closed" /\ info_result # NoResult /\ DOMAIN database.entries = {}) =>
        /\ info_result.status = "ok"
        /\ DOMAIN info_result.meta = {}
        /\ "No video frames found" \in info_result.printed

\* the stored values Image.open accepts
Decodable == {k \in DOMAIN database.entries : database.entries[k].image # ImageCorrupt}

\* C8: a stored frame whose bytes do not decode is non-fatal to info: for
\* every store content (the undecodable frame first, last, or every frame)
\* info completes, visits every remaining frame, and the counts sum to the
\* number of stored frames that decode.
C8_InfoSkipsUndecodable ==
    (pc = "closed" /\ info_result # NoResult /\ DOMAIN database.entries # {}) =>
        /\ info_result.status = "ok"
        /\ TotalCount(info_result.meta) = Cardinality(Decodable)
        /\ info_result.failed = Cardinality((DOMAIN database.entries) \ Decodable)

\* C8 for a store with at least one frame that decodes
C8_InfoSkipsUndecodableSome ==
    (pc = "closed" /\ info_result # NoResult /\ Decodable # {}) =>
        /\ info_result.status = "ok"
        /\ TotalCount(info_result.meta) = Cardinality(Decodable)
        /\ info_result.failed = Cardinality((DOMAIN database.entries) \ Decodable)

====
